---- MODULE Spec2Model ----
(***************************************************************************)
(* libpathrs C API: object duplication and conversion of Root / Handle     *)
(* objects to and from raw file descriptors (src/src/capi/transmute.rs).   *)
(*                                                                         *)
(* The process is modelled by its descriptor table, the heap of leaked     *)
(* CRoot / CHandle objects, and the set of descriptors the C caller owns.  *)
(* Each function of the C API is one action.                               *)
(***************************************************************************)
EXTENDS Integers, FiniteSets, Sequences, TLC

MaxFd == 3
MaxObjs == 2
MaxPathLen == 3

NULL == 0
ERR_FD == -1
RetryBound == 3

PATHRS_NONE == "PATHRS_NONE"
PATHRS_ERROR == "PATHRS_ERROR"
PATHRS_ROOT == "PATHRS_ROOT"
PATHRS_HANDLE == "PATHRS_HANDLE"
PATHRS_INVALID == "__PATHRS_INVALID_TYPE"

CPointerType == {PATHRS_NONE, PATHRS_ERROR, PATHRS_ROOT, PATHRS_HANDLE, PATHRS_INVALID}
ObjectTypes == {PATHRS_ROOT, PATHRS_HANDLE}

Files == {"dirA", "fileB"}
FdNums == 0 .. (MaxFd - 1)
NegFds == {-1, -2}
Ptrs == 1 .. MaxObjs

Resolvers == {"kernel-native-preferred", "emulated-only"}
DefaultResolver == "kernel-native-preferred"

VARIABLES fds, objs, callerFds, last, panicked,
          wpath, wadv, wpos, wheld, wraced, wrestarts, wresult

ffiVars == <<fds, objs, callerFds, last, panicked>>
walkVars == <<wpath, wadv, wpos, wheld, wraced, wrestarts, wresult>>
vars == <<fds, objs, callerFds, last, panicked,
          wpath, wadv, wpos, wheld, wraced, wrestarts, wresult>>

----------------------------------------------------------------------------
(* Objects: CPointer<T> = (inner: Option<T>, last_error: Option<Error>).    *)
(* Option<T> is a set with at most one element.                             *)

FreeSlot == [kind |-> "free", inner |-> {}, resolver |-> "none", last_error |-> "None"]

CPointerFrom(kind, fd, resolver) ==
    [kind |-> kind, inner |-> {fd}, resolver |-> resolver, last_error |-> "None"]

CPointerFromErr(kind, err) ==
    [kind |-> kind, inner |-> {}, resolver |-> "none", last_error |-> err]

FreePtrs == {p \in Ptrs : objs[p].kind = "free"}
LivePtrs == Ptrs \ FreePtrs

Leak == CHOOSE p \in FreePtrs : \A q \in FreePtrs : p <= q

OpenFds(table) == {f \in FdNums : table[f] # "closed"}

CloseFd(table, fd) == [table EXCEPT ![fd] = "closed"]

(* fcntl(fd, F_DUPFD_CLOEXEC, 0): the lowest free descriptor number, on the *)
(* same file; EBADF for a descriptor that is not open, EMFILE for a full    *)
(* table.                                                                   *)
TryCloneHotfix(table, fd) ==
    IF fd \notin FdNums \/ table[fd] = "closed"
    THEN [ok |-> FALSE, fd |-> ERR_FD, table |-> table]
    ELSE IF OpenFds(table) = FdNums
    THEN [ok |-> FALSE, fd |-> ERR_FD, table |-> table]
    ELSE LET new == CHOOSE f \in FdNums :
                        /\ table[f] = "closed"
                        /\ \A g \in FdNums : table[g] = "closed" => f <= g
         IN [ok |-> TRUE, fd |-> new, table |-> [table EXCEPT ![new] = table[fd]]]

(* error::InvalidArgument { name, description }, by the argument it names;  *)
(* OsError is a failed system call.                                         *)
EInvalidFd == "InvalidArgument(fd)"
EInvalidFdType == "InvalidArgument(fd_type)"
EInvalidPtr == "InvalidArgument(ptr)"
EOsError == "OsError"
InvalidArgument == {EInvalidFd, EInvalidFdType, EInvalidPtr}

Op(op, ret, err) == [op |-> op, ret |-> ret, err |-> err]

----------------------------------------------------------------------------
Init ==
    /\ fds = [f \in FdNums |->
                 IF f = 0 THEN "fileB"
                 ELSE IF f = 1 THEN "dirA"
                 ELSE "closed"]
    /\ objs = [p \in Ptrs |->
                  IF p = 1 THEN CPointerFrom(PATHRS_ROOT, 1, "emulated-only")
                  ELSE FreeSlot]
    /\ callerFds = {0}
    /\ last = Op("init", NULL, "None")
    /\ panicked = FALSE
    /\ wpath = 0 /\ wadv = "idle" /\ wpos = 0 /\ wheld = 0
    /\ wraced = FALSE /\ wrestarts = 0 /\ wresult = "idle"

----------------------------------------------------------------------------
(* Helpers of the crate that transmute.rs calls.                            *)

(* panic!() in an extern "C" function: the process aborts, and with it go   *)
(* its descriptors and objects.                                             *)
Abort ==
    /\ panicked' = TRUE
    /\ fds' = [f \in FdNums |-> "closed"]
    /\ objs' = [p \in Ptrs |-> FreeSlot]
    /\ callerFds' = {}
    /\ last' = Op("abort", NULL, "panic")

(* ErrorWrap::wrap / CPointer::wrap_err: the stored error is cleared before *)
(* the operation and set when it fails.                                     *)
WrapErr(o, err) == [o EXCEPT !.last_error = err]

(* Root::try_clone / Handle::try_clone: a duplicated descriptor and, for a  *)
(* Root, the same resolver configuration.                                   *)
TryClone(o) ==
    LET c == TryCloneHotfix(fds, CHOOSE f \in o.inner : TRUE)
    IN  [ok |-> c.ok, table |-> c.table,
         obj |-> CPointerFrom(o.kind, c.fd, o.resolver)]

(* Root::from_file_unchecked: wraps the file with the default resolver.     *)
RootFromFileUnchecked(fd) == CPointerFrom(PATHRS_ROOT, fd, DefaultResolver)

HandleFromFileUnchecked(fd) == CPointerFrom(PATHRS_HANDLE, fd, "none")

----------------------------------------------------------------------------
(* pathrs_duplicate                                                         *)

DuplicateAliased(o) ==
    [ok |-> TRUE, table |-> fds,
     obj |-> CPointerFrom(o.kind, CHOOSE f \in o.inner : TRUE, o.resolver)]

DuplicateNoConfig(o) ==
    LET c == TryClone(o)
    IN  [c EXCEPT !.obj.resolver =
            IF o.kind = PATHRS_ROOT THEN DefaultResolver ELSE "none"]

(* The closure passed to wrap_err: try_clone().map(CRoot::from).            *)
DuplicateClone(o) == TryClone(o)

pathrs_duplicate(ptr_type, ptr) ==
    /\ ~panicked
    /\ UNCHANGED walkVars
    /\ ptr \in LivePtrs \cup {NULL}
    /\ (ptr # NULL /\ ptr_type \in ObjectTypes) => objs[ptr].kind = ptr_type
    /\ IF ptr = NULL \/ ptr_type \in {PATHRS_NONE, PATHRS_ERROR}
       THEN /\ last' = Op("duplicate", NULL, "Lost")
            /\ UNCHANGED <<fds, objs, callerFds, panicked>>
       ELSE IF ptr_type \in ObjectTypes
       THEN LET o == objs[ptr] IN
            IF o.inner = {}
            THEN /\ objs' = [objs EXCEPT ![ptr] = WrapErr(o, EInvalidPtr)]
                 /\ last' = Op("duplicate", NULL, EInvalidPtr)
                 /\ UNCHANGED <<fds, callerFds, panicked>>
            ELSE LET c == DuplicateClone(o) IN
                 IF ~c.ok
                 THEN /\ objs' = [objs EXCEPT ![ptr] = WrapErr(o, EOsError)]
                      /\ last' = Op("duplicate", NULL, EOsError)
                      /\ UNCHANGED <<fds, callerFds, panicked>>
                 ELSE /\ FreePtrs # {}
                      /\ objs' = [objs EXCEPT ![ptr] = WrapErr(o, "None"),
                                              ![Leak] = c.obj]
                      /\ fds' = c.table
                      /\ last' = Op("duplicate", Leak, "None")
                      /\ UNCHANGED <<callerFds, panicked>>
       ELSE Abort

----------------------------------------------------------------------------
(* pathrs_into_fd                                                           *)

IntoFdKeep(o) == o

(* take_wrap_err: inner.take() moves the Root / Handle out of the object.   *)
IntoFdTake(o) == [o EXCEPT !.inner = {}, !.resolver = "none"]

pathrs_into_fd(ptr_type, ptr) ==
    /\ ~panicked
    /\ UNCHANGED walkVars
    /\ ptr \in LivePtrs \cup {NULL}
    /\ (ptr # NULL /\ ptr_type \in ObjectTypes) => objs[ptr].kind = ptr_type
    /\ IF ptr = NULL \/ ptr_type \in {PATHRS_NONE, PATHRS_ERROR}
       THEN /\ last' = Op("into_fd", ERR_FD, "Lost")
            /\ UNCHANGED <<fds, objs, callerFds, panicked>>
       ELSE IF ptr_type \in ObjectTypes
       THEN LET o == objs[ptr] IN
            IF o.inner = {}
            THEN /\ objs' = [objs EXCEPT ![ptr] = WrapErr(o, EInvalidPtr)]
                 /\ last' = Op("into_fd", ERR_FD, EInvalidPtr)
                 /\ UNCHANGED <<fds, callerFds, panicked>>
            ELSE LET fd == CHOOSE f \in o.inner : TRUE IN
                 /\ objs' = [objs EXCEPT ![ptr] = WrapErr(IntoFdTake(o), "None")]
                 /\ callerFds' = callerFds \cup {fd}
                 /\ last' = Op("into_fd", fd, "None")
                 /\ UNCHANGED <<fds, panicked>>
       ELSE Abort

----------------------------------------------------------------------------
(* pathrs_from_fd                                                           *)

FromFdNoCheck(fd) == TRUE

(* ensure!(fd >= 0, InvalidArgument)                                        *)
FromFdCheckFd(fd) == fd >= 0

FromFdAdopt(fd) == [ok |-> TRUE, fd |-> fd, table |-> fds]

(* let file = fd.try_clone_hotfix()?                                        *)
FromFdFile(fd) == TryCloneHotfix(fds, fd)

FromFdObjectSwapped(fd_type, file) ==
    IF fd_type = PATHRS_ROOT
    THEN HandleFromFileUnchecked(file.fd)
    ELSE RootFromFileUnchecked(file.fd)

(* The PATHRS_ROOT and PATHRS_HANDLE arms of the match on fd_type.          *)
FromFdObject(fd_type, file) ==
    IF fd_type = PATHRS_ROOT
    THEN RootFromFileUnchecked(file.fd)
    ELSE HandleFromFileUnchecked(file.fd)

FromFdLeakFile(file) == file.table

(* The `_` arm fails while `file` is still owned by the closure: the File   *)
(* is dropped, which closes the duplicate.                                  *)
FromFdDropFile(file) == CloseFd(file.table, file.fd)

(* The closure run under last_error.wrap.                                   *)
FromFdClosure(fd_type, fd) ==
    IF ~FromFdCheckFd(fd)
    THEN [err |-> EInvalidFd, obj |-> FreeSlot, table |-> fds]
    ELSE LET file == FromFdFile(fd) IN
         IF ~file.ok
         THEN [err |-> EOsError, obj |-> FreeSlot, table |-> fds]
         ELSE IF fd_type \in ObjectTypes
         THEN [err |-> "None", obj |-> FromFdObject(fd_type, file), table |-> file.table]
         ELSE [err |-> EInvalidFdType, obj |-> FreeSlot,
               table |-> FromFdDropFile(file)]

FromFdErrAlways(fd_type, err) ==
    {CPointerFromErr(IF fd_type \in ObjectTypes THEN fd_type ELSE PATHRS_ROOT, err)}

FromFdErrNull(fd_type, err) == {}

(* match last_error { Some(err) => match fd_type { ... } }: the object that *)
(* carries the error, if one can be built.                                  *)
FromFdErrObject(fd_type, err) ==
    IF fd_type \in ObjectTypes THEN {CPointerFromErr(fd_type, err)} ELSE {}

(* The descriptor values a caller passes: negative values, descriptors it   *)
(* owns, and numbers that are not open.                                     *)
FromFdArgs == NegFds \cup callerFds \cup (FdNums \ OpenFds(fds))

pathrs_from_fd(fd_type, fd) ==
    /\ ~panicked
    /\ UNCHANGED walkVars
    /\ fd \in FromFdArgs
    /\ LET r == FromFdClosure(fd_type, fd)
           e == FromFdErrObject(fd_type, r.err)
       IN  IF r.err = "None"
           THEN /\ FreePtrs # {}
                /\ objs' = [objs EXCEPT ![Leak] = r.obj]
                /\ fds' = r.table
                /\ last' = Op("from_fd", Leak, "None")
                /\ UNCHANGED <<callerFds, panicked>>
           ELSE IF fd_type = PATHRS_INVALID
           THEN Abort
           ELSE IF e # {}
           THEN /\ FreePtrs # {}
                /\ objs' = [objs EXCEPT ![Leak] = CHOOSE x \in e : TRUE]
                /\ fds' = r.table
                /\ last' = Op("from_fd", Leak, r.err)
                /\ UNCHANGED <<callerFds, panicked>>
           ELSE /\ fds' = r.table
                /\ last' = Op("from_fd", NULL, r.err)
                /\ UNCHANGED <<objs, callerFds, panicked>>

----------------------------------------------------------------------------
(* Destruction of an object, and the caller closing a descriptor it owns.   *)

pathrs_free(ptr) ==
    /\ ~panicked
    /\ UNCHANGED walkVars
    /\ ptr \in LivePtrs
    /\ fds' = [f \in FdNums |-> IF f \in objs[ptr].inner THEN "closed" ELSE fds[f]]
    /\ objs' = [objs EXCEPT ![ptr] = FreeSlot]
    /\ last' = Op("free", NULL, "None")
    /\ UNCHANGED <<callerFds, panicked>>

CallerClose(fd) ==
    /\ ~panicked
    /\ UNCHANGED walkVars
    /\ fd \in callerFds
    /\ fds' = CloseFd(fds, fd)
    /\ callerFds' = callerFds \ {fd}
    /\ last' = Op("close", NULL, "None")
    /\ UNCHANGED <<objs, panicked>>

Next ==
    \/ \E t \in CPointerType, p \in Ptrs \cup {NULL} : pathrs_duplicate(t, p)
    \/ \E t \in CPointerType, p \in Ptrs \cup {NULL} : pathrs_into_fd(t, p)
    \/ \E t \in CPointerType, fd \in FdNums \cup NegFds : pathrs_from_fd(t, fd)
    \/ \E p \in Ptrs : pathrs_free(p)
    \/ \E fd \in FdNums : CallerClose(fd)

Spec == Init /\ [][Next]_vars

----------------------------------------------------------------------------
(* Resolution through a Root: the dispatcher picks the kernel-native       *)
(* backend or the component walk; on a filesystem that holds still both    *)
(* look the path up in the same tree.                                      *)

Components == {"etc", "passwd"}
Paths == {<<"etc">>, <<"passwd">>, <<"etc", "passwd">>, <<"etc", "etc">>}

Lookup(dir, name) ==
    IF dir = "dirA" /\ name = "etc" THEN "dirA/etc"
    ELSE IF dir = "dirA/etc" /\ name = "passwd" THEN "dirA/etc/passwd"
    ELSE IF dir \in {"dirA", "dirA/etc"} THEN "NotFound"
    ELSE "NotADirectory"

RECURSIVE WalkResolve(_, _)
WalkResolve(dir, path) ==
    IF path = <<>> THEN dir
    ELSE LET n == Lookup(dir, Head(path)) IN
         IF n \in {"NotFound", "NotADirectory"} THEN n
         ELSE WalkResolve(n, Tail(path))

NativeResolve(dir, path) == WalkResolve(dir, path)

Dispatch(resolver, native) ==
    IF resolver = "emulated-only" \/ ~native THEN "walk" ELSE "native"

Resolve(dir, resolver, native, path) ==
    IF Dispatch(resolver, native) = "native"
    THEN NativeResolve(dir, path)
    ELSE WalkResolve(dir, path)

----------------------------------------------------------------------------
(* The emulated walk with the Race Verifier's bounded retry.  wadv is the  *)
(* adversary: "always" swaps a directory every time one is opened.         *)

WalkInit ==
    /\ fds = [f \in FdNums |-> IF f = 1 THEN "dirA" ELSE "closed"]
    /\ objs = [p \in Ptrs |->
                  IF p = 1 THEN CPointerFrom(PATHRS_ROOT, 1, "emulated-only")
                  ELSE FreeSlot]
    /\ callerFds = {}
    /\ last = Op("init", NULL, "None")
    /\ panicked = FALSE
    /\ wpath \in 1 .. MaxPathLen
    /\ wadv \in {"always", "sometimes", "never"}
    /\ wpos = 0 /\ wheld = 0 /\ wraced = FALSE /\ wrestarts = 0
    /\ wresult = "running"

(* Open the next component beneath the current directory descriptor.       *)
WalkOpen ==
    /\ wresult = "running"
    /\ wpos < wpath
    /\ wpos' = wpos + 1
    /\ wheld' = wheld + 1
    /\ \E swap \in BOOLEAN :
          /\ wadv = "always" => swap
          /\ wadv = "never" => ~swap
          /\ wraced' = (wraced \/ swap)
    /\ UNCHANGED <<wpath, wadv, wrestarts, wresult>>
    /\ UNCHANGED ffiVars

WalkVerifyOffByOne ==
    /\ wresult = "running"
    /\ wpos = wpath
    /\ IF ~wraced
       THEN /\ wresult' = "Success"
            /\ wheld' = 1
            /\ UNCHANGED <<wpos, wraced, wrestarts>>
       ELSE IF wrestarts <= RetryBound
       THEN /\ wrestarts' = wrestarts + 1
            /\ wpos' = 0 /\ wheld' = 0 /\ wraced' = FALSE
            /\ UNCHANGED wresult
       ELSE /\ wresult' = "PersistentRace"
            /\ wheld' = 0
            /\ UNCHANGED <<wpos, wraced, wrestarts>>
    /\ UNCHANGED <<wpath, wadv>>
    /\ UNCHANGED ffiVars

(* Race Verifier: a clean walk yields the Handle; a detected race discards *)
(* every intermediate descriptor and restarts from the root, up to         *)
(* RetryBound restarts, after which PersistentRace is reported.            *)
WalkVerify ==
    /\ wresult = "running"
    /\ wpos = wpath
    /\ IF ~wraced
       THEN /\ wresult' = "Success"
            /\ wheld' = 1
            /\ UNCHANGED <<wpos, wraced, wrestarts>>
       ELSE IF wrestarts < RetryBound
       THEN /\ wrestarts' = wrestarts + 1
            /\ wpos' = 0 /\ wheld' = 0 /\ wraced' = FALSE
            /\ UNCHANGED wresult
       ELSE /\ wresult' = "PersistentRace"
            /\ wheld' = 0
            /\ UNCHANGED <<wpos, wraced, wrestarts>>
    /\ UNCHANGED <<wpath, wadv>>
    /\ UNCHANGED ffiVars

WalkNext == WalkOpen \/ WalkVerify

WalkSpec == WalkInit /\ [][WalkNext]_vars /\ WF_vars(WalkNext)

----------------------------------------------------------------------------
(* Properties.                                                              *)

Owned == UNION {objs[p].inner : p \in LivePtrs}
Usable(o) == o.kind \in ObjectTypes /\ o.inner # {}
FileOf(table, o) == table[CHOOSE f \in o.inner : TRUE]
Failed(l) == l.err \in InvalidArgument \cup {EOsError}

(* C1: no two live objects own the same descriptor, no live object owns a   *)
(* descriptor the caller owns, and every owned descriptor is open.          *)
C1_NoSharedDescriptors ==
    /\ \A p \in LivePtrs : \A q \in LivePtrs :
          p # q => objs[p].inner \cap objs[q].inner = {}
    /\ \A p \in LivePtrs : objs[p].inner \cap callerFds = {}
    /\ \A p \in LivePtrs : objs[p].inner \subseteq OpenFds(fds)
    /\ callerFds \subseteq OpenFds(fds)

C1_Witness ==
    /\ last.op = "from_fd" /\ last.err = "None"
    /\ \E p \in LivePtrs : \E q \in LivePtrs :
          p # q /\ Usable(objs[p]) /\ Usable(objs[q])
    /\ \E fd \in callerFds : fds[fd] = "dirA"

(* C2: a successful pathrs_duplicate leaves the source with the same        *)
(* descriptor and configuration and no stored error, and returns an object  *)
(* of the same kind on the same file (and, for a Root, the same             *)
(* configuration) with a descriptor of its own; freeing or exporting an     *)
(* object leaves every other object and its descriptor as they were.        *)
C2_DuplicateIndependent ==
    [][ /\ \A t \in ObjectTypes : \A p \in Ptrs :
              (last'.op = "duplicate" /\ last'.ret # NULL /\ pathrs_duplicate(t, p)) =>
                 /\ objs'[p].inner = objs[p].inner
                 /\ objs'[p].resolver = objs[p].resolver
                 /\ objs'[p].kind = objs[p].kind
                 /\ objs'[p].last_error = "None"
                 /\ last'.ret # p
                 /\ LET n == objs'[last'.ret] IN
                       /\ n.kind = t
                       /\ Usable(n)
                       /\ n.inner \cap OpenFds(fds) = {}
                       /\ FileOf(fds', n) = FileOf(fds, objs[p])
                       /\ n.resolver = objs[p].resolver
                       /\ n.last_error = "None"
        /\ \A p \in Ptrs :
              (/\ last'.op \in {"free", "into_fd"}
               /\ pathrs_free(p) \/ \E t \in ObjectTypes : pathrs_into_fd(t, p)) =>
                 \A q \in LivePtrs \ {p} :
                    /\ objs'[q] = objs[q]
                    /\ \A f \in objs[q].inner : fds'[f] = fds[f] /\ fds[f] # "closed"
      ]_vars

C2_Witness ==
    /\ last.op = "duplicate" /\ last.ret # NULL /\ last.err = "None"
    /\ \E p \in LivePtrs :
          /\ p # last.ret
          /\ Usable(objs[p]) /\ Usable(objs[last.ret])
          /\ objs[p].kind = PATHRS_ROOT /\ objs[last.ret].kind = PATHRS_ROOT
          /\ objs[p].resolver = "emulated-only"
          /\ objs[last.ret].resolver = "emulated-only"
          /\ FileOf(fds, objs[p]) = FileOf(fds, objs[last.ret])

(* C3: a successful pathrs_into_fd hands the object's descriptor to the     *)
(* caller and empties the object; an emptied object stays empty, every      *)
(* pathrs_into_fd or pathrs_duplicate on it fails with -1 / NULL and        *)
(* exports nothing, and freeing it closes no descriptor.                    *)
C3_IntoFdConsumes ==
    [][ /\ \A t \in ObjectTypes : \A p \in Ptrs :
              (last'.op = "into_fd" /\ last'.ret # ERR_FD /\ pathrs_into_fd(t, p)) =>
                 /\ objs[p].inner = {last'.ret}
                 /\ objs'[p].inner = {}
                 /\ last'.ret \in callerFds'
                 /\ fds' = fds /\ fds[last'.ret] # "closed"
        /\ \A t \in ObjectTypes : \A p \in Ptrs :
              (last'.op = "into_fd" /\ objs[p].inner = {} /\ pathrs_into_fd(t, p)) =>
                 /\ last'.ret = ERR_FD /\ last'.err = EInvalidPtr
                 /\ callerFds' = callerFds /\ fds' = fds
        /\ \A t \in ObjectTypes : \A p \in Ptrs :
              (last'.op = "duplicate" /\ objs[p].inner = {} /\ pathrs_duplicate(t, p)) =>
                 /\ last'.ret = NULL /\ last'.err = EInvalidPtr
                 /\ fds' = fds
        /\ \A p \in Ptrs :
              (last'.op = "free" /\ objs[p].inner = {} /\ pathrs_free(p)) => fds' = fds
        /\ \A p \in LivePtrs :
              (objs[p].inner = {} /\ objs'[p].kind # "free") => objs'[p].inner = {}
      ]_vars

C3_Witness ==
    /\ last.op = "into_fd" /\ last.ret = ERR_FD /\ last.err = EInvalidPtr
    /\ \E p \in LivePtrs :
          /\ objs[p].kind = PATHRS_ROOT /\ objs[p].inner = {}
          /\ objs[p].last_error = EInvalidPtr
    /\ \E fd \in callerFds : fds[fd] = "dirA"

(* C4: pathrs_from_fd on a descriptor the caller owns leaves it open and    *)
(* owned by the caller whatever the outcome; a created object owns another, *)
(* newly opened descriptor on the same file; and the caller closing a       *)
(* descriptor leaves every object and its descriptor as they were.          *)
C4_FromFdKeepsCallerFd ==
    [][ /\ \A t \in CPointerType : \A fd \in FdNums :
              (last'.op = "from_fd" /\ fd \in callerFds /\ pathrs_from_fd(t, fd)) =>
                 /\ fds[fd] # "closed" /\ fds'[fd] = fds[fd]
                 /\ fd \in callerFds'
                 /\ last'.ret # NULL => fd \notin objs'[last'.ret].inner
                 /\ last'.err = "None" =>
                       /\ Usable(objs'[last'.ret])
                       /\ objs'[last'.ret].inner \cap OpenFds(fds) = {}
                       /\ FileOf(fds', objs'[last'.ret]) = fds[fd]
        /\ \A fd \in FdNums :
              (last'.op = "close" /\ CallerClose(fd)) =>
                 \A q \in LivePtrs :
                    /\ objs'[q] = objs[q]
                    /\ \A f \in objs[q].inner : fds'[f] = fds[f] /\ fds[f] # "closed"
      ]_vars

C4_Witness ==
    /\ last.op = "from_fd" /\ last.err = "None" /\ last.ret # NULL
    /\ Usable(objs[last.ret])
    /\ \E fd \in callerFds :
          /\ fd \notin objs[last.ret].inner
          /\ fds[fd] = FileOf(fds, objs[last.ret])

(* C5: pathrs_from_fd with a negative fd and kind Root or Handle fails with *)
(* InvalidArgument naming fd, opens no descriptor, and returns an object of *)
(* the requested kind that stores the error.                                *)
C5_NegativeFdRejected ==
    [][ \A t \in ObjectTypes : \A fd \in NegFds :
           (last'.op = "from_fd" /\ pathrs_from_fd(t, fd)) =>
              /\ last'.err = EInvalidFd
              /\ fds' = fds
              /\ last'.ret # NULL
              /\ objs'[last'.ret] = CPointerFromErr(t, EInvalidFd)
      ]_vars

C5_Witness ==
    /\ last.op = "from_fd" /\ last.err = EInvalidFd /\ last.ret # NULL
    /\ objs[last.ret].kind \in ObjectTypes
    /\ objs[last.ret].inner = {}
    /\ objs[last.ret].last_error = EInvalidFd

(* C6, as stated: every failing duplicate, into_fd and from_fd returns the  *)
(* sentinel (NULL, or -1 for into_fd), and duplicate and into_fd store the  *)
(* error on the object passed.                                              *)
C6_Original ==
    [][ /\ \A t \in ObjectTypes : \A p \in Ptrs :
              (last'.op = "duplicate" /\ Failed(last') /\ pathrs_duplicate(t, p)) =>
                 last'.ret = NULL /\ objs'[p].last_error = last'.err
        /\ \A t \in ObjectTypes : \A p \in Ptrs :
              (last'.op = "into_fd" /\ Failed(last') /\ pathrs_into_fd(t, p)) =>
                 last'.ret < 0 /\ objs'[p].last_error = last'.err
        /\ \A t \in CPointerType : \A fd \in FdNums \cup NegFds :
              (last'.op = "from_fd" /\ Failed(last') /\ pathrs_from_fd(t, fd)) =>
                 last'.ret = NULL
      ]_vars

(* C6, amended: a failing duplicate or into_fd on a Root or Handle returns  *)
(* NULL / -1 and stores the error on the object passed; with a NULL pointer *)
(* or kind NONE / ERROR they return the sentinel and store nothing.  A      *)
(* failing from_fd of kind Root or Handle returns a new, non-NULL object of *)
(* that kind holding only the error; of kind NONE / ERROR it returns NULL   *)
(* and the error is stored nowhere.                                         *)
C6_ErrorConvention ==
    [][ /\ \A t \in ObjectTypes : \A p \in Ptrs :
              (last'.op = "duplicate" /\ Failed(last') /\ pathrs_duplicate(t, p)) =>
                 last'.ret = NULL /\ objs' = [objs EXCEPT ![p].last_error = last'.err]
        /\ \A t \in ObjectTypes : \A p \in Ptrs :
              (last'.op = "into_fd" /\ Failed(last') /\ pathrs_into_fd(t, p)) =>
                 last'.ret = ERR_FD /\ objs' = [objs EXCEPT ![p].last_error = last'.err]
        /\ \A t \in CPointerType \ {PATHRS_INVALID} : \A p \in Ptrs \cup {NULL} :
              (/\ last'.op = "duplicate"
               /\ p = NULL \/ t \in {PATHRS_NONE, PATHRS_ERROR}
               /\ pathrs_duplicate(t, p)) =>
                 last'.ret = NULL /\ last'.err = "Lost" /\ objs' = objs
        /\ \A t \in CPointerType \ {PATHRS_INVALID} : \A p \in Ptrs \cup {NULL} :
              (/\ last'.op = "into_fd"
               /\ p = NULL \/ t \in {PATHRS_NONE, PATHRS_ERROR}
               /\ pathrs_into_fd(t, p)) =>
                 last'.ret = ERR_FD /\ last'.err = "Lost" /\ objs' = objs
        /\ \A t \in ObjectTypes : \A fd \in FdNums \cup NegFds :
              (last'.op = "from_fd" /\ Failed(last') /\ pathrs_from_fd(t, fd)) =>
                 /\ last'.ret \in Ptrs
                 /\ objs[last'.ret].kind = "free"
                 /\ objs' = [objs EXCEPT ![last'.ret] = CPointerFromErr(t, last'.err)]
        /\ \A t \in {PATHRS_NONE, PATHRS_ERROR} : \A fd \in FdNums \cup NegFds :
              (last'.op = "from_fd" /\ pathrs_from_fd(t, fd)) =>
                 Failed(last') /\ last'.ret = NULL /\ objs' = objs
      ]_vars

C6_Witness ==
    /\ last.op = "from_fd" /\ last.err = EOsError /\ last.ret # NULL
    /\ objs[last.ret].inner = {}
    /\ objs[last.ret].last_error = EOsError
    /\ \E p \in LivePtrs : objs[p].last_error = EInvalidPtr

C8_Original ==
    [][ \A t \in {PATHRS_NONE, PATHRS_ERROR} : \A fd \in FdNums :
           (/\ last'.op = "from_fd"
            /\ fd \in callerFds /\ OpenFds(fds) # FdNums
            /\ pathrs_from_fd(t, fd)) =>
              /\ last'.ret # NULL
              /\ objs'[last'.ret].last_error \in InvalidArgument
      ]_vars

(* C8, amended: with a descriptor of the caller and kind NONE or ERROR the  *)
(* call builds InvalidArgument naming fd_type (or the system error of a     *)
(* failed duplication) but returns NULL and creates no object, so the error *)
(* cannot be read; with a tag outside the four declared kinds it panics.    *)
C8_InvalidKindLost ==
    [][ /\ \A t \in {PATHRS_NONE, PATHRS_ERROR} : \A fd \in FdNums :
              (last'.op = "from_fd" /\ fd \in callerFds /\ pathrs_from_fd(t, fd)) =>
                 /\ last'.ret = NULL
                 /\ objs' = objs
                 /\ ~panicked'
                 /\ last'.err = (IF OpenFds(fds) # FdNums THEN EInvalidFdType ELSE EOsError)
        /\ \A fd \in FdNums :
              (~panicked' /\ fd \in callerFds) => ~pathrs_from_fd(PATHRS_INVALID, fd)
      ]_vars

C8_Witness ==
    /\ last.op = "from_fd" /\ last.err = EInvalidFdType /\ last.ret = NULL
    /\ ~panicked
    /\ \A p \in LivePtrs : objs[p].last_error # EInvalidFdType
    /\ callerFds # {}

(* C9: the number of restarts never exceeds RetryBound; a restart happens   *)
(* only on a detected race, drops every descriptor of the attempt and       *)
(* starts again at the root; only Success or PersistentRace is reported,    *)
(* PersistentRace only once RetryBound restarts are used up; and under the  *)
(* adversary that swaps on every open the walk ends in PersistentRace.      *)
C9_RetryTermination ==
    /\ [](/\ wrestarts <= RetryBound
          /\ wresult \in {"running", "Success", "PersistentRace"}
          /\ wresult = "PersistentRace" => (wrestarts = RetryBound /\ wraced)
          /\ wresult = "Success" => ~wraced)
    /\ [][wrestarts' # wrestarts =>
             /\ wraced /\ wpos = wpath
             /\ wrestarts' = wrestarts + 1
             /\ wpos' = 0 /\ wheld' = 0 /\ ~wraced']_vars
    /\ (wadv = "always") => <>(wresult = "PersistentRace")

C9_Witness ==
    /\ wadv = "always" /\ wresult = "PersistentRace"
    /\ wrestarts = RetryBound /\ wpos = wpath

(* C10: a pathrs_from_fd that returns no usable object leaves the           *)
(* descriptor table as it was, and with kind NONE or ERROR it returns NULL  *)
(* and creates no object.                                                   *)
C10_FromFdNoLeak ==
    [][ \A t \in CPointerType : \A fd \in FdNums \cup NegFds :
           (last'.op = "from_fd" /\ last'.err # "None" /\ pathrs_from_fd(t, fd)) =>
              /\ fds' = fds
              /\ OpenFds(fds') = callerFds' \cup UNION {objs'[p].inner : p \in Ptrs}
              /\ t \in {PATHRS_NONE, PATHRS_ERROR} => (last'.ret = NULL /\ objs' = objs)
      ]_vars

C10_Witness ==
    /\ last.op = "from_fd" /\ last.err = EInvalidFdType /\ last.ret = NULL
    /\ OpenFds(fds) = callerFds \cup Owned
    /\ OpenFds(fds) # FdNums

====
